---- MODULE Spec2Model ----
(***************************************************************************)
(* The credential and token lifecycle of the ProjectManagement server:     *)
(* the auth controller (register, login, logout, me, verify-email,         *)
(* resend-email-verification), the verifyJWT middleware and the User       *)
(* model's methods, run as concurrent requests against one users           *)
(* collection.  Every step of a request is one store operation together    *)
(* with the synchronous code that follows it up to the next await.         *)
(*                                                                         *)
(* Time is counted in whole seconds, the resolution of a JWT's iat/exp.    *)
(***************************************************************************)
EXTENDS Integers, Sequences, FiniteSets, TLC

VARIABLES
    users,      \* the users collection: a sequence of documents, _id = index
    req,        \* the requests in flight: arguments, position, locals
    now,        \* the clock (Date.now(), in seconds)
    outbox,     \* the emails the transporter delivered
    issued,     \* the JWTs handed to clients in responses
    last,       \* the request answered last: its arguments and its response
    serial,     \* number of temporary tokens drawn from crypto.randomBytes
    consumed,   \* history: the plaintexts a verify-email or reset-password
                \* request succeeded with
    started     \* number of requests received

vars == <<users, req, now, outbox, issued, last, serial, consumed, started>>

-----------------------------------------------------------------------------
(* Bounds of the exploration *)

MaxUsers == 2
MaxRequests == 3
MaxSessionRequests == 4
MaxVerifyRequests == 4
MaxRegisterRequests == 3
MaxRaceRequests == 4
MaxGuardRequests == 3
MaxPasswordRequests == 4
MaxSessionRaceRequests == 4
MaxFrameRequests == 5
MaxFaultRequests == 4
MaxTwoUserRequests == 4

Reqs == {1, 2}

Emails == {"a@x.com", "A@x.com", "b@x.com"}
Usernames == {"alice", "bob"}
Passwords == {"Secret1!", "Passw0rd!"}
RegisterPasswords == {"Secret1!"}
Missing == ""

-----------------------------------------------------------------------------
(* Configuration and constants *)

ACCESS_TOKEN_SECRET == "access-secret"
REFRESH_TOKEN_SECRET == "refresh-secret"
ACCESS_TOKEN_EXPIRY == 20 * 60
REFRESH_TOKEN_EXPIRY == 24 * 60 * 60
TemporaryTokenWindow == 20 * 60

\* The instants the clock is observed at: two consecutive seconds, and the
\* seconds at which what was issued in them expires.
Instants == {0, 1, TemporaryTokenWindow, TemporaryTokenWindow + 1}

-----------------------------------------------------------------------------
(* Values *)

\* String.prototype.toLowerCase on the addresses and names in use.
Lower(s) == IF s = "A@x.com" THEN "a@x.com" ELSE s

\* A password as supplied, before any hashing.
Plain(p) == [alg |-> "plain", of |-> "none", salt |-> 0, text |-> p]

\* bcrypt.hash(v, 10): a salted one-way encoding of the string v, which is
\* a password as supplied or, hashed again, an encoding itself (of).
BcryptHash(v, salt) ==
    [alg |-> "bcrypt", of |-> v.alg, salt |-> salt, text |-> v.text]

\* bcrypt.compare(p, h): false for anything that is not a bcrypt encoding of
\* the string p.
BcryptCompare(p, h) == h.alg = "bcrypt" /\ h.of = "plain" /\ h.text = p

NoDigest == [alg |-> "none", of |-> 0]
NoDate == -1

\* crypto.createHash("sha256").update(t).digest("hex")
Sha256(t) == [alg |-> "sha256", of |-> t]

NoToken ==
    [lead |-> "", key |-> "none", sub |-> 0, email |-> "", username |-> "",
     iat |-> 0, exp |-> 0]

\* A string that is no JWT at all.
Garbage == [NoToken EXCEPT !.key = "garbage"]

\* jwt.sign(payload, secret, {expiresIn}): HS256 over the payload with
\* iat = floor(now) and exp = iat + expiresIn; the same inputs in the same
\* second give the same string.
JwtSign(payload, secret, expiresIn, t) ==
    [lead |-> "", key |-> secret, sub |-> payload.sub, email |-> payload.email,
     username |-> payload.username, iat |-> t, exp |-> t + expiresIn]

\* Faulty variant: the signature is not checked.
JwtVerify_AnySecret(tok, secret, t) ==
    /\ tok.lead = ""
    /\ tok.key \in {ACCESS_TOKEN_SECRET, REFRESH_TOKEN_SECRET}
    /\ t < tok.exp

\* Faulty variant: the exp claim is not checked.
JwtVerify_NoExpiry(tok, secret, t) ==
    /\ tok.lead = ""
    /\ tok.key = secret

\* jwt.verify(token, secret): throws unless the string is a well-formed JWT
\* signed with secret and not expired (now >= exp is expired).
JwtVerify(tok, secret, t) ==
    /\ tok.lead = ""
    /\ tok.key = secret
    /\ t < tok.exp

-----------------------------------------------------------------------------
(* The User model *)

DocFields ==
    {"_id", "username", "email", "password", "isEmailVerified", "refreshToken",
     "forgotPasswordToken", "forgotPasswordExpiry",
     "emailVerificationToken", "emailVerificationExpiry"}

\* The value that stands for a path the document does not hold.
Absent ==
    [refreshToken |-> NoToken,
     forgotPasswordToken |-> NoDigest, forgotPasswordExpiry |-> NoDate,
     emailVerificationToken |-> NoDigest, emailVerificationExpiry |-> NoDate]

Present(doc, f) == f \notin DOMAIN Absent \/ doc[f] # Absent[f]

\* Faulty variant: the hook stores the password as it was given.
PreSave_NoHash(doc, modified, salt) == doc

\* Faulty variant: the hook hashes the password on every save.
PreSave_Always(doc, modified, salt) ==
    [doc EXCEPT !.password = BcryptHash(doc.password, salt)]

\* userSchema.pre("save"): hash the password when it was modified.
PreSave(doc, modified, salt) ==
    IF "password" \notin modified THEN doc
    ELSE [doc EXCEPT !.password = BcryptHash(doc.password, salt)]

\* new User(fields) under the schema: lowercase setters on username and
\* email, and no value for the paths not given.
NewDoc(id, email, username, password) ==
    [_id |-> id, username |-> Lower(username), email |-> Lower(email),
     password |-> Plain(password), isEmailVerified |-> FALSE,
     refreshToken |-> NoToken,
     forgotPasswordToken |-> NoDigest, forgotPasswordExpiry |-> NoDate,
     emailVerificationToken |-> NoDigest, emailVerificationExpiry |-> NoDate]

\* Faulty variant: every password is taken for the right one.
isPasswordCorrect_Always(doc, password) == TRUE

isPasswordCorrect(doc, password) == BcryptCompare(password, doc.password)

generateAccessToken(doc, t) ==
    JwtSign([sub |-> doc._id, email |-> doc.email, username |-> doc.username],
            ACCESS_TOKEN_SECRET, ACCESS_TOKEN_EXPIRY, t)

\* Faulty variant: every refresh token names the first record.
generateRefreshToken_First(doc, t) ==
    JwtSign([sub |-> 1, email |-> "", username |-> ""],
            REFRESH_TOKEN_SECRET, REFRESH_TOKEN_EXPIRY, t)

generateRefreshToken(doc, t) ==
    JwtSign([sub |-> doc._id, email |-> "", username |-> ""],
            REFRESH_TOKEN_SECRET, REFRESH_TOKEN_EXPIRY, t)

\* A token's plaintext n, were it stored as it is.
PlainToken(n) == [alg |-> "plain", of |-> n]

\* Faulty variant: the value to store is the plaintext, not its digest.
generateTemporaryToken_Unhashed(n, t) ==
    [unHashedToken |-> n, hashedToken |-> PlainToken(n),
     tokenExpiry |-> t + TemporaryTokenWindow]

\* generateTemporaryToken(): n is the value crypto.randomBytes returned.
generateTemporaryToken(n, t) ==
    [unHashedToken |-> n, hashedToken |-> Sha256(n),
     tokenExpiry |-> t + TemporaryTokenWindow]

-----------------------------------------------------------------------------
(* Store queries *)

Ids == 1..Len(users)

findById(id) == IF id \in Ids THEN {id} ELSE {}

\* Faulty variant: the existence check looks at the email alone.
findByEmailOrUsername_EmailOnly(email, username) ==
    {i \in Ids : users[i].email = Lower(email)}

\* User.findOne({$or: [{email}, {username}]}); the schema's setters are
\* applied to the filter's values.
findByEmailOrUsername(email, username) ==
    {i \in Ids : users[i].email = Lower(email)
                 \/ users[i].username = Lower(username)}

\* User.findOne({email})
findByEmail(email) == {i \in Ids : users[i].email = Lower(email)}

\* The paths .select("-password -refreshToken -emailVerificationToken
\* -emailVerificationExpiry") leaves out.
SelectExcluded ==
    {"password", "refreshToken", "emailVerificationToken",
     "emailVerificationExpiry"}

\* A document as a query with that projection returns it.
Select(doc) ==
    [f \in {g \in DocFields \ SelectExcluded : Present(doc, g)} |-> doc[f]]

NoSummary == [f \in {} |-> 0]


-----------------------------------------------------------------------------
(* Requests *)

IdleReq ==
    [op |-> "none", pc |-> "idle",
     email |-> Missing, username |-> Missing, password |-> Missing,
     newPassword |-> Missing,
     tok |-> 0, cred |-> NoToken,
     uid |-> 0, plain |-> 0, hashed |-> NoDigest, expiry |-> NoDate,
     at |-> NoToken, rt |-> NoToken,
     status |-> 0, msg |-> "", user |-> NoSummary,
     accessToken |-> NoToken, refreshToken |-> NoToken,
     prior |-> NoToken]

\* A request is taken up by the lowest idle slot.
CanStart(r) ==
    /\ req[r].pc = "idle"
    /\ \A q \in Reqs : q < r => req[q].pc # "idle"

\* res.status(code).json(new ApiResponse(...)), or a thrown ApiError(code, msg)
\* turned into a response.
Respond(q, code, msg) == [q EXCEPT !.pc = "done", !.status = code, !.msg = msg]

\* The request in slot r is answered with resp.
Answer(r, resp) ==
    /\ req' = [req EXCEPT ![r] = IdleReq]
    /\ last' = resp

\* The request in slot r waits for its next store operation.
Await(r, q) ==
    /\ req' = [req EXCEPT ![r] = q]
    /\ UNCHANGED last

TypeOKLite == now \in Instants /\ Len(users) <= MaxUsers

Init ==
    /\ users = << >>
    /\ req = [r \in Reqs |-> IdleReq]
    /\ now = 0
    /\ outbox = {}
    /\ issued = {}
    /\ last = IdleReq
    /\ serial = 0
    /\ consumed = {}
    /\ started = 0

\* The clock moves on to a later one of the instants S.
Tick(S) ==
    /\ \E t \in S : t > now /\ now' = t
    /\ UNCHANGED <<users, req, outbox, issued, last, serial, started, consumed>>

-----------------------------------------------------------------------------
(* registerUser *)

\* Faulty variant: a store without unique indexes.
UniqueViolation_Never(doc) == FALSE

\* The store's unique indexes on email and username (and on the bcrypt
\* encoding of the password, which the fresh salt keeps distinct).
UniqueViolation(doc) ==
    \E i \in Ids : \/ users[i].email = doc.email
                   \/ users[i].username = doc.username
                   \/ users[i].password = doc.password

\* The status the error middleware gives an error that is no ApiError (a
\* driver error such as E11000 duplicate key).
DriverErrorStatus == 500

\* const existingUser = await User.findOne({$or: [{email}, {username}]});
\* if (existingUser) throw new ApiError(409, ...)
RegisterFindOne(r, email, username, password) ==
    /\ CanStart(r)
    /\ \/ findByEmailOrUsername(email, username) # {}
       \/ Len(users) + Cardinality({q \in Reqs : req[q].pc = "reg_create"})
             < MaxUsers
    /\ started' = started + 1
    /\ LET q == [IdleReq EXCEPT !.op = "register", !.email = email,
                                !.username = username, !.password = password]
       IN  IF findByEmailOrUsername(email, username) # {}
           THEN Answer(r, Respond(q, 409, "User with email or username already exists"))
           ELSE Await(r, [q EXCEPT !.pc = "reg_create"])
    /\ UNCHANGED <<users, now, outbox, issued, serial, consumed>>

\* const user = await User.create({...}); then generateTemporaryToken() and
\* the assignments of lines 78-81.
RegisterCreate(r) ==
    /\ req[r].pc = "reg_create"
    /\ LET id == Len(users) + 1
           doc == PreSave(NewDoc(id, req[r].email, req[r].username,
                                 req[r].password), {"password"}, id)
           tmp == generateTemporaryToken(serial + 1, now)
       IN  IF UniqueViolation(doc)
           THEN /\ Answer(r, Respond(req[r], DriverErrorStatus, "E11000 duplicate key"))
                /\ UNCHANGED <<users, serial>>
           ELSE /\ users' = Append(users, doc)
                /\ serial' = serial + 1
                /\ Await(r, [req[r] EXCEPT !.pc = "reg_save", !.uid = id,
                                           !.plain = tmp.unHashedToken,
                                           !.hashed = tmp.hashedToken,
                                           !.expiry = tmp.tokenExpiry])
    /\ UNCHANGED <<now, outbox, issued, started, consumed>>

\* Faulty variant: the mail goes out without the save.
SaveVerification_Skipped(doc, hashed, expiry) == doc

\* await user.save({validateBeforeSave: false}) with emailVerificationToken
\* and emailVerificationExpiry modified.
SaveVerification(doc, hashed, expiry) ==
    PreSave([doc EXCEPT !.emailVerificationToken = hashed,
                        !.emailVerificationExpiry = expiry],
            {"emailVerificationToken", "emailVerificationExpiry"}, 0)

RegisterSave(r) ==
    /\ req[r].pc = "reg_save"
    /\ users' = [users EXCEPT ![req[r].uid] =
                    SaveVerification(@, req[r].hashed, req[r].expiry)]
    /\ Await(r, [req[r] EXCEPT !.pc = "reg_mail"])
    /\ UNCHANGED <<now, outbox, issued, serial, started, consumed>>

Mail(doc, plain, purpose) ==
    [to |-> doc.email, plain |-> plain, purpose |-> purpose]

\* sendEmail: transporter.sendMail either delivers the mail or throws, and the
\* throw is caught and logged.
SendEmail(mail, delivered) == IF delivered THEN outbox \cup {mail} ELSE outbox

\* Faulty variant: the transporter's error reaches the caller of sendEmail.
SendEmailThrows_Uncaught(delivered) == ~delivered

\* Whether await sendEmail(...) throws: the try/catch around sendMail logs
\* the error and returns.
SendEmailThrows(delivered) == FALSE

RegisterSendEmail(r) ==
    /\ req[r].pc = "reg_mail"
    /\ \E delivered \in BOOLEAN :
          /\ outbox' = SendEmail(Mail(users[req[r].uid], req[r].plain, "verify"),
                                 delivered)
          /\ IF SendEmailThrows(delivered)
             THEN Answer(r, Respond(req[r], DriverErrorStatus, "sendMail failed"))
             ELSE Await(r, [req[r] EXCEPT !.pc = "reg_find"])
    /\ UNCHANGED <<users, now, issued, serial, started, consumed>>

\* const createdUser = await User.findById(user._id).select(...); 201.
RegisterRespond(r) ==
    /\ req[r].pc = "reg_find"
    /\ IF findById(req[r].uid) = {}
       THEN Answer(r, Respond(req[r], 500, "Something went wrong while registering a user"))
       ELSE Answer(r, [Respond(req[r], 201, "User registered successfully")
                         EXCEPT !.user = Select(users[req[r].uid])])
    /\ UNCHANGED <<users, now, outbox, issued, serial, started, consumed>>

-----------------------------------------------------------------------------
(* generateAccessAndRefreshToken, shared by the flows that issue tokens *)

\* const user = await User.findById(userId); sign both tokens;
\* user.refreshToken = refreshToken
GenerateFindById(r) ==
    /\ req[r].pc = "gen_find"
    /\ IF findById(req[r].uid) = {}
       THEN Answer(r, Respond(req[r], 500, "Something went wrong while generating access token"))
       ELSE Await(r, [req[r] EXCEPT
                        !.pc = "gen_save",
                        !.at = generateAccessToken(users[req[r].uid], now),
                        !.rt = generateRefreshToken(users[req[r].uid], now)])
    /\ UNCHANGED <<users, now, outbox, issued, serial, started, consumed>>

\* Faulty variant: the save gives way to a reference stored meanwhile.
SaveRefreshToken_IfAbsent(doc, rt) ==
    IF doc.refreshToken # NoToken THEN doc
    ELSE [doc EXCEPT !.refreshToken = rt]

\* Faulty variant: the token is returned without being stored.
SaveRefreshToken_Skipped(doc, rt) == doc

\* await user.save({validateBeforeSave: false}) with refreshToken modified.
SaveRefreshToken(doc, rt) ==
    PreSave([doc EXCEPT !.refreshToken = rt], {"refreshToken"}, 0)

\* The save of generateAccessAndRefreshToken; loginUser then goes on to
\* its findById, any other caller answers with the tokens.
GenerateSave(r) ==
    /\ req[r].pc = "gen_save"
    /\ users' = [users EXCEPT ![req[r].uid] = SaveRefreshToken(@, req[r].rt)]
    /\ IF req[r].op = "login"
       THEN /\ Await(r, [req[r] EXCEPT !.pc = "login_find"])
            /\ UNCHANGED issued
       ELSE /\ Answer(r, [Respond(req[r], 200, "Access token refreshed")
                            EXCEPT !.accessToken = req[r].at,
                                   !.refreshToken = req[r].rt])
            /\ issued' = issued \cup {req[r].at, req[r].rt}
    /\ UNCHANGED <<now, outbox, serial, started, consumed>>

\* Faulty variant: the error is swallowed and the caller gets the tokens.
GenerateThrows_Swallowed(r) ==
    /\ req[r].pc \in {"gen_find", "gen_save"}
    /\ findById(req[r].uid) # {}
    /\ Await(r, [req[r] EXCEPT
                    !.pc = "login_find",
                    !.at = generateAccessToken(users[req[r].uid], now),
                    !.rt = generateRefreshToken(users[req[r].uid], now)])
    /\ UNCHANGED <<users, now, outbox, issued, serial, started, consumed>>

\* The store or the signing fails inside generateAccessAndRefreshToken:
\* User.findById rejects, jwt.sign throws or user.save rejects, nothing is
\* written, and the catch turns the error into ApiError(500).
GenerateThrows(r) ==
    /\ req[r].pc \in {"gen_find", "gen_save"}
    /\ Answer(r, Respond(req[r], 500, "Something went wrong while generating access token"))
    /\ UNCHANGED <<users, now, outbox, issued, serial, started, consumed>>

-----------------------------------------------------------------------------
(* loginUser *)

\* Faulty variant: Login is refused until the email is verified.
LoginCheck_NeedsVerified(email, password) ==
    IF email = Missing THEN 400
    ELSE IF password = Missing THEN 400
    ELSE IF findByEmail(email) = {} THEN 404
    ELSE IF ~isPasswordCorrect(users[CHOOSE i \in findByEmail(email) : TRUE],
                                password) THEN 401
    ELSE IF ~users[CHOOSE i \in findByEmail(email) : TRUE].isEmailVerified
         THEN 401
    ELSE 0

\* The outcome of lines 135-144 on the store as it is: 0 stands for going on
\* to issue tokens.
LoginCheck(email, password) ==
    IF email = Missing THEN 400
    ELSE IF password = Missing THEN 400
    ELSE IF findByEmail(email) = {} THEN 404
    ELSE IF ~isPasswordCorrect(users[CHOOSE i \in findByEmail(email) : TRUE],
                                password) THEN 401
    ELSE 0

LoginMessage(code) ==
    CASE code = 400 -> "required"
      [] code = 404 -> "User doesn't exists"
      [] code = 401 -> "!Invalid username or password"
      [] OTHER -> ""

\* Faulty variant: a Login refused for its password ends the user's session.
LoginFindOne_EndsSession(r, email, password) ==
    /\ CanStart(r)
    /\ started' = started + 1
    /\ LET q == [IdleReq EXCEPT !.op = "login", !.email = email,
                                !.password = password]
           code == LoginCheck(email, password)
       IN  IF code # 0
           THEN /\ Answer(r, Respond(q, code, LoginMessage(code)))
                /\ users' = IF code # 401 THEN users
                            ELSE [users EXCEPT
                                    ![CHOOSE i \in findByEmail(email) : TRUE] =
                                        [@ EXCEPT !.refreshToken = NoToken]]
           ELSE /\ Await(r, [q EXCEPT !.pc = "gen_find",
                                      !.uid = CHOOSE i \in findByEmail(email) : TRUE])
                /\ UNCHANGED users
    /\ UNCHANGED <<now, outbox, issued, serial, consumed>>

LoginFindOne(r, email, password) ==
    /\ CanStart(r)
    /\ started' = started + 1
    /\ LET q == [IdleReq EXCEPT !.op = "login", !.email = email,
                                !.password = password]
           code == LoginCheck(email, password)
       IN  IF code # 0
           THEN Answer(r, Respond(q, code, LoginMessage(code)))
           ELSE Await(r, [q EXCEPT !.pc = "gen_find",
                                   !.uid = CHOOSE i \in findByEmail(email) : TRUE])
    /\ UNCHANGED <<users, now, outbox, issued, serial, consumed>>

\* const loggedInUser = await User.findById(user._id).select(...); 200 with
\* the user and both tokens, in the body and as cookies.
LoginRespond(r) ==
    /\ req[r].pc = "login_find"
    /\ Answer(r, [Respond(req[r], 200, "User logged in successfully")
                    EXCEPT !.user = Select(users[req[r].uid]),
                           !.accessToken = req[r].at,
                           !.refreshToken = req[r].rt])
    /\ issued' = issued \cup {req[r].at, req[r].rt}
    /\ UNCHANGED <<users, now, outbox, serial, started, consumed>>

-----------------------------------------------------------------------------
(* verifyJWT and the routes behind it *)

\* What a client can present: a token it was given, a string that is no
\* JWT, or nothing.
Credentials == issued \cup {Garbage, NoToken}

\* An access token with a good signature whose record the collection does
\* not hold (the record was removed from the store).
Orphan ==
    JwtSign([sub |-> MaxUsers + 1, email |-> "gone@x.com", username |-> "gone"],
            ACCESS_TOKEN_SECRET, ACCESS_TOKEN_EXPIRY, 0)

\* req.header("Authorization")?.replace("Bearer", "") on "Bearer <token>":
\* the blank after the scheme stays in front of the token.
StripBearer(tok) == IF tok = NoToken THEN NoToken ELSE [tok EXCEPT !.lead = " "]

\* const token = req.cookies?.accessToken || req.header(...)?.replace(...)
ExtractToken(tok, via) == IF via = "cookie" THEN tok ELSE StripBearer(tok)

\* Faulty variant: a user who logged out (no refresh token on the record) is
\* no longer authenticated.
VerifyJWTCheck_NeedsSession(token) ==
    IF token = NoToken THEN 401
    ELSE IF ~JwtVerify(token, ACCESS_TOKEN_SECRET, now) THEN 401
    ELSE IF findById(token.sub) = {} THEN 401
    ELSE IF ~Present(users[token.sub], "refreshToken") THEN 401
    ELSE 0

\* verifyJWT's outcome on the token it extracted: 401, or 0 for next().
VerifyJWTCheck(token) ==
    IF token = NoToken THEN 401
    ELSE IF ~JwtVerify(token, ACCESS_TOKEN_SECRET, now) THEN 401
    ELSE IF findById(token.sub) = {} THEN 401
    ELSE 0

AfterVerifyJWT(route) ==
    CASE route = "logout" -> "logout_update"
      [] route = "resend" -> "resend_find"
      [] OTHER -> "done"

\* verifyJWT, then the handler up to its first await: getCurrentUser answers
\* at once with req.user.
VerifyJWT(r, route, tok, via) ==
    /\ CanStart(r)
    /\ started' = started + 1
    /\ LET token == ExtractToken(tok, via)
           code == VerifyJWTCheck(token)
           q == [IdleReq EXCEPT !.op = route, !.cred = token]
       IN  IF code # 0
           THEN Answer(r, Respond(q, code, IF token = NoToken
                                           THEN "Unauthorized request"
                                           ELSE "Invalid access token"))
           ELSE IF route = "me"
           THEN Answer(r, [Respond(q, 200, "Current user fetched successfully")
                             EXCEPT !.uid = token.sub,
                                    !.user = Select(users[token.sub])])
           ELSE Await(r, [q EXCEPT !.pc = AfterVerifyJWT(route),
                                   !.uid = token.sub,
                                   !.user = Select(users[token.sub])])
    /\ UNCHANGED <<users, now, outbox, issued, serial, consumed>>

\* Faulty variant: the update leaves the refresh token where it is.
UnsetRefreshToken_Kept(doc) == doc

\* findByIdAndUpdate(req.user._id, {$unset: {refreshToken: 1}})
UnsetRefreshToken(doc) == [doc EXCEPT !.refreshToken = NoToken]

\* Faulty variant: a Logout that finds no session to end reports an error.
LogoutStatus_NeedsSession(doc) ==
    IF Present(doc, "refreshToken") THEN 200 ELSE 404

\* The status logoutUser answers with, whatever the document held.
LogoutStatus(doc) == 200

\* logoutUser; prior notes, for the record of the run, the refresh token the
\* document held before the update.
LogoutUpdate(r) ==
    /\ req[r].pc = "logout_update"
    /\ users' = [users EXCEPT ![req[r].uid] = UnsetRefreshToken(@)]
    /\ Answer(r, [Respond(req[r], LogoutStatus(users[req[r].uid]),
                          "User logged out")
                    EXCEPT !.user = NoSummary,
                           !.prior = users[req[r].uid].refreshToken])
    /\ UNCHANGED <<now, outbox, issued, serial, started, consumed>>

-----------------------------------------------------------------------------
(* verifyUserEmail *)

\* The plaintexts a caller can put in the URL: one that was mailed, one
\* that was never generated, or none.
NoPlain == 0
UnknownPlain == 99
Plaintexts(purpose) == {m.plain : m \in {x \in outbox : x.purpose = purpose}}

\* Faulty variant: a token is still taken at the very instant it expires.
findByVerificationToken_AtExpiry(hashed, t) ==
    {i \in Ids : /\ users[i].emailVerificationToken = hashed
                 /\ users[i].emailVerificationExpiry # NoDate
                 /\ users[i].emailVerificationExpiry >= t}

\* Faulty variant: the query matches the hashed token alone, whatever the expiry.
findByVerificationToken_AnyExpiry(hashed, t) ==
    {i \in Ids : users[i].emailVerificationToken = hashed}

\* User.findOne({emailVerificationToken: hashedToken,
\*               emailVerificationExpiry: {$gt: Date.now()}})
findByVerificationToken(hashed, t) ==
    {i \in Ids : /\ users[i].emailVerificationToken = hashed
                 /\ users[i].emailVerificationExpiry # NoDate
                 /\ users[i].emailVerificationExpiry > t}

VerifyEmailFindOne(r, plain) ==
    /\ CanStart(r)
    /\ started' = started + 1
    /\ LET q == [IdleReq EXCEPT !.op = "verify", !.tok = plain]
           found == findByVerificationToken(Sha256(plain), now)
       IN  IF plain = NoPlain
           THEN Answer(r, Respond(q, 400, "Email verification token is missing"))
           ELSE IF found = {}
           THEN Answer(r, Respond(q, 400, "Token is invalid or expired"))
           ELSE Await(r, [q EXCEPT !.pc = "verify_save",
                                   !.uid = CHOOSE i \in found : TRUE])
    /\ UNCHANGED <<users, now, outbox, issued, serial, consumed>>

\* Faulty variant: the record is marked verified and keeps its token and expiry.
SaveVerified_KeepToken(doc) ==
    PreSave([doc EXCEPT !.isEmailVerified = TRUE], {"isEmailVerified"}, 0)

\* Lines 262-265: both verification paths unset, isEmailVerified set, save.
SaveVerified(doc) ==
    PreSave([doc EXCEPT !.emailVerificationToken = NoDigest,
                        !.emailVerificationExpiry = NoDate,
                        !.isEmailVerified = TRUE],
            {"emailVerificationToken", "emailVerificationExpiry",
             "isEmailVerified"}, 0)

\* Faulty variant: the save marks every record verified.
VerifyEmailSave_Everyone(r) ==
    /\ req[r].pc = "verify_save"
    /\ users' = [i \in DOMAIN users |-> SaveVerified(users[i])]
    /\ Answer(r, Respond(req[r], 200, "Email is verified"))
    /\ consumed' = consumed \cup {req[r].tok}
    /\ UNCHANGED <<now, outbox, issued, serial, started>>

VerifyEmailSave(r) ==
    /\ req[r].pc = "verify_save"
    /\ users' = [users EXCEPT ![req[r].uid] = SaveVerified(@)]
    /\ Answer(r, Respond(req[r], 200, "Email is verified"))
    /\ consumed' = consumed \cup {req[r].tok}
    /\ UNCHANGED <<now, outbox, issued, serial, started>>

-----------------------------------------------------------------------------
(* resendEmailVerification *)

\* Faulty variant: a verified caller is sent a new token all the same.
ResendCheck_IgnoresVerified(id) == IF findById(id) = {} THEN 404 ELSE 0

\* The two checks of lines 296-300 on the document found: 0 stands for
\* going on to generate a token.
ResendCheck(id) ==
    IF findById(id) = {} THEN 404
    ELSE IF users[id].isEmailVerified THEN 409
    ELSE 0

\* const user = await User.findById(req.user?._id); the two checks; a new
\* temporary token assigned to the document.
ResendFindById(r) ==
    /\ req[r].pc = "resend_find"
    /\ LET tmp == generateTemporaryToken(serial + 1, now)
           code == ResendCheck(req[r].uid)
       IN  IF code = 404
           THEN /\ Answer(r, Respond(req[r], 404, "User not found"))
                /\ UNCHANGED serial
           ELSE IF code = 409
           THEN /\ Answer(r, Respond(req[r], 409, "Email is already verified"))
                /\ UNCHANGED serial
           ELSE /\ Await(r, [req[r] EXCEPT !.pc = "resend_save",
                                           !.plain = tmp.unHashedToken,
                                           !.hashed = tmp.hashedToken,
                                           !.expiry = tmp.tokenExpiry])
                /\ serial' = serial + 1
    /\ UNCHANGED <<users, now, outbox, issued, started, consumed>>

ResendSave(r) ==
    /\ req[r].pc = "resend_save"
    /\ users' = [users EXCEPT ![req[r].uid] =
                    SaveVerification(@, req[r].hashed, req[r].expiry)]
    /\ Await(r, [req[r] EXCEPT !.pc = "resend_mail"])
    /\ UNCHANGED <<now, outbox, issued, serial, started, consumed>>

ResendSendEmail(r) ==
    /\ req[r].pc = "resend_mail"
    /\ \E delivered \in BOOLEAN :
          /\ outbox' = SendEmail(Mail(users[req[r].uid], req[r].plain, "verify"),
                                 delivered)
          /\ IF SendEmailThrows(delivered)
             THEN Answer(r, Respond(req[r], DriverErrorStatus, "sendMail failed"))
             ELSE Answer(r, [Respond(req[r], 200,
                                     "Mail has been sent to your email id")
                               EXCEPT !.user = NoSummary])
    /\ UNCHANGED <<users, now, issued, serial, started, consumed>>

-----------------------------------------------------------------------------
(* refreshAccessToken and forgotPasswordRequest: the routes name them, the  *)
(* controller at hand does not define them; they follow the design text.    *)

\* Refresh: verify the supplied refresh token, check it against the
\* record's reference, then re-issue and persist.
RefreshCheck(tok) ==
    IF tok = NoToken THEN 401
    ELSE IF ~JwtVerify(tok, REFRESH_TOKEN_SECRET, now) THEN 401
    ELSE IF findById(tok.sub) = {} THEN 401
    ELSE IF users[tok.sub].refreshToken # tok THEN 401
    ELSE 0

RefreshVerify(r, tok) ==
    /\ CanStart(r)
    /\ started' = started + 1
    /\ LET q == [IdleReq EXCEPT !.op = "refresh", !.cred = tok]
       IN  IF RefreshCheck(tok) # 0
           THEN Answer(r, Respond(q, RefreshCheck(tok), "Invalid refresh token"))
           ELSE Await(r, [q EXCEPT !.pc = "gen_find", !.uid = tok.sub])
    /\ UNCHANGED <<users, now, outbox, issued, serial, consumed>>

\* Forgot password: the verify-email pattern with purpose reset.
ForgotFindOne(r, email) ==
    /\ CanStart(r)
    /\ started' = started + 1
    /\ LET q == [IdleReq EXCEPT !.op = "forgot", !.email = email]
           tmp == generateTemporaryToken(serial + 1, now)
       IN  IF findByEmail(email) = {}
           THEN /\ Answer(r, Respond(q, 404, "User does not exists"))
                /\ UNCHANGED serial
           ELSE /\ Await(r, [q EXCEPT !.pc = "forgot_save",
                                      !.uid = CHOOSE i \in findByEmail(email) : TRUE,
                                      !.plain = tmp.unHashedToken,
                                      !.hashed = tmp.hashedToken,
                                      !.expiry = tmp.tokenExpiry])
                /\ serial' = serial + 1
    /\ UNCHANGED <<users, now, outbox, issued, consumed>>

SaveForgotPassword(doc, hashed, expiry) ==
    PreSave([doc EXCEPT !.forgotPasswordToken = hashed,
                        !.forgotPasswordExpiry = expiry],
            {"forgotPasswordToken", "forgotPasswordExpiry"}, 0)

ForgotSave(r) ==
    /\ req[r].pc = "forgot_save"
    /\ users' = [users EXCEPT ![req[r].uid] =
                    SaveForgotPassword(@, req[r].hashed, req[r].expiry)]
    /\ Await(r, [req[r] EXCEPT !.pc = "forgot_mail"])
    /\ UNCHANGED <<now, outbox, issued, serial, started, consumed>>

ForgotSendEmail(r) ==
    /\ req[r].pc = "forgot_mail"
    /\ \E delivered \in BOOLEAN :
          outbox' = SendEmail(Mail(users[req[r].uid], req[r].plain, "reset"),
                              delivered)
    /\ Answer(r, Respond(req[r], 200, "Password reset mail has been sent"))
    /\ UNCHANGED <<users, now, issued, serial, started, consumed>>

-----------------------------------------------------------------------------
(* changeCurrentPassword and resetForgotPassword: named by the routes, not  *)
(* defined in the controller at hand; they follow the design text.          *)

\* The salt bcrypt draws for a password hashed while serving the n-th
\* request received: unlike every salt drawn before.
FreshSalt(n) == MaxUsers + n

\* user.password = newPassword; await user.save({validateBeforeSave: false})
SavePassword(doc, password, salt) ==
    PreSave([doc EXCEPT !.password = Plain(password)], {"password"}, salt)

\* Change password: verifyJWT, then the handler up to its first await.
ChangeVerifyJWT(r, tok, oldPassword, newPassword) ==
    /\ CanStart(r)
    /\ started' = started + 1
    /\ LET token == ExtractToken(tok, "cookie")
           code == VerifyJWTCheck(token)
           q == [IdleReq EXCEPT !.op = "change", !.cred = token,
                                !.password = oldPassword,
                                !.newPassword = newPassword]
       IN  IF code # 0
           THEN Answer(r, Respond(q, code, IF token = NoToken
                                           THEN "Unauthorized request"
                                           ELSE "Invalid access token"))
           ELSE Await(r, [q EXCEPT !.pc = "change_find", !.uid = token.sub,
                                   !.user = Select(users[token.sub])])
    /\ UNCHANGED <<users, now, outbox, issued, serial, consumed>>

\* Load the caller's record and verify the current password.
ChangeFindById(r) ==
    /\ req[r].pc = "change_find"
    /\ IF ~isPasswordCorrect(users[req[r].uid], req[r].password)
       THEN Answer(r, Respond(req[r], 401, "Invalid old password"))
       ELSE Await(r, [req[r] EXCEPT !.pc = "change_save"])
    /\ UNCHANGED <<users, now, outbox, issued, serial, started, consumed>>

\* Hash and store the new password.
ChangeSave(r) ==
    /\ req[r].pc = "change_save"
    /\ users' = [users EXCEPT ![req[r].uid] =
                    SavePassword(@, req[r].newPassword, FreshSalt(started))]
    /\ Answer(r, Respond(req[r], 200, "Password changed successfully"))
    /\ UNCHANGED <<now, outbox, issued, serial, started, consumed>>

\* The record a reset token selects: the verify-email query with the
\* forgot-password paths.
findByResetToken(hashed, t) ==
    {i \in Ids : /\ users[i].forgotPasswordToken = hashed
                 /\ users[i].forgotPasswordExpiry # NoDate
                 /\ users[i].forgotPasswordExpiry > t}

\* Reset password: match the supplied token against the pending secret.
ResetFindOne(r, plain, newPassword) ==
    /\ CanStart(r)
    /\ started' = started + 1
    /\ LET q == [IdleReq EXCEPT !.op = "reset", !.tok = plain,
                                !.newPassword = newPassword]
           found == findByResetToken(Sha256(plain), now)
       IN  IF found = {}
           THEN Answer(r, Respond(q, 400, "Token is invalid or expired"))
           ELSE Await(r, [q EXCEPT !.pc = "reset_save",
                                   !.uid = CHOOSE i \in found : TRUE])
    /\ UNCHANGED <<users, now, outbox, issued, serial, consumed>>

\* The pending secret cleared and the password replaced, in one save.
SaveReset(doc, password, salt) ==
    PreSave([doc EXCEPT !.forgotPasswordToken = NoDigest,
                        !.forgotPasswordExpiry = NoDate,
                        !.password = Plain(password)],
            {"forgotPasswordToken", "forgotPasswordExpiry", "password"}, salt)

ResetSave(r) ==
    /\ req[r].pc = "reset_save"
    /\ users' = [users EXCEPT ![req[r].uid] =
                    SaveReset(@, req[r].newPassword, FreshSalt(started))]
    /\ Answer(r, Respond(req[r], 200, "Password reset successfully"))
    /\ consumed' = consumed \cup {req[r].tok}
    /\ UNCHANGED <<now, outbox, issued, serial, started>>

-----------------------------------------------------------------------------
(* Specifications *)

\* The steps by which the requests in flight go on.
RegisterStep(r) ==
    \/ RegisterCreate(r)
    \/ RegisterSave(r)
    \/ RegisterSendEmail(r)
    \/ RegisterRespond(r)

LoginStep(r) ==
    \/ GenerateFindById(r)
    \/ GenerateSave(r)
    \/ LoginRespond(r)

\* Requests are received while fewer than n were.
Budget(n) == started < n

\* The whole API, one request at a time.
Next ==
    \/ Tick(Instants)
    \/ /\ Budget(MaxRequests)
       /\ \/ \E e \in Emails, u \in Usernames, p \in RegisterPasswords :
                RegisterFindOne(1, e, u, p)
          \/ \E e \in Emails \cup {Missing}, p \in Passwords \cup {Missing} :
                LoginFindOne(1, e, p)
          \/ \E route \in {"logout", "me", "resend"}, tok \in Credentials,
                via \in {"cookie", "header"} : VerifyJWT(1, route, tok, via)
          \/ \E plain \in Plaintexts("verify") \cup {NoPlain, UnknownPlain} :
                VerifyEmailFindOne(1, plain)
          \/ \E tok \in Credentials : RefreshVerify(1, tok)
          \/ \E e \in Emails : ForgotFindOne(1, e)
    \/ RegisterStep(1)
    \/ LoginStep(1)
    \/ LogoutUpdate(1)
    \/ VerifyEmailSave(1)
    \/ ResendFindById(1)
    \/ ResendSave(1)
    \/ ResendSendEmail(1)
    \/ ForgotSave(1)
    \/ ForgotSendEmail(1)

Spec == Init /\ [][Next]_vars

\* The session routes: register, login, logout, me and refresh-token, one
\* request at a time.
SessionInstants == {0, 1, ACCESS_TOKEN_EXPIRY}

NextSession ==
    \/ Tick(SessionInstants)
    \/ /\ Budget(MaxSessionRequests)
       /\ \/ \E e \in Emails, u \in Usernames, p \in RegisterPasswords :
                RegisterFindOne(1, e, u, p)
          \/ \E e \in Emails \cup {Missing}, p \in Passwords \cup {Missing} :
                LoginFindOne(1, e, p)
          \/ \E route \in {"logout", "me"}, tok \in Credentials :
                VerifyJWT(1, route, tok, "cookie")
          \/ \E tok \in Credentials : RefreshVerify(1, tok)
    \/ RegisterStep(1)
    \/ LoginStep(1)
    \/ LogoutUpdate(1)

SpecSession == Init /\ [][NextSession]_vars

\* The verification routes: register, login, verify-email and
\* resend-email-verification, one request at a time.
NextVerify ==
    \/ Tick(Instants)
    \/ /\ Budget(MaxVerifyRequests)
       /\ \/ \E e \in Emails, u \in Usernames, p \in RegisterPasswords :
                RegisterFindOne(1, e, u, p)
          \/ \E e \in Emails, p \in RegisterPasswords :
                LoginFindOne(1, e, p)
          \/ \E tok \in Credentials : VerifyJWT(1, "resend", tok, "cookie")
          \/ \E plain \in Plaintexts("verify") \cup {NoPlain, UnknownPlain} :
                VerifyEmailFindOne(1, plain)
    \/ RegisterStep(1)
    \/ LoginStep(1)
    \/ VerifyEmailSave(1)
    \/ ResendFindById(1)
    \/ ResendSave(1)
    \/ ResendSendEmail(1)

SpecVerify == Init /\ [][NextVerify]_vars

\* Register requests alone, two at a time.
NextRegister ==
    \/ /\ Budget(MaxRegisterRequests)
       /\ \E r \in Reqs, e \in Emails, u \in Usernames, p \in RegisterPasswords :
             RegisterFindOne(r, e, u, p)
    \/ \E r \in Reqs : RegisterStep(r)

SpecRegister == Init /\ [][NextRegister]_vars

\* One user's verification requests, two at a time: register, login,
\* verify-email and resend-email-verification interleaved at every await.
NextVerifyRace ==
    \/ /\ Budget(MaxRaceRequests)
       /\ \E r \in Reqs :
             \/ RegisterFindOne(r, "a@x.com", "alice", "Secret1!")
             \/ LoginFindOne(r, "a@x.com", "Secret1!")
             \/ \E tok \in issued : VerifyJWT(r, "resend", tok, "cookie")
             \/ \E plain \in Plaintexts("verify") : VerifyEmailFindOne(r, plain)
    \/ \E r \in Reqs :
          \/ RegisterStep(r)
          \/ LoginStep(r)
          \/ VerifyEmailSave(r)
          \/ ResendFindById(r)
          \/ ResendSave(r)
          \/ ResendSendEmail(r)

SpecVerifyRace == Init /\ [][NextVerifyRace]_vars

\* One user's session requests, two at a time: register, login and logout
\* interleaved at every await, over two seconds of the clock.
SessionRaceInstants == {0, 1}

NextSessionRace ==
    \/ Tick(SessionRaceInstants)
    \/ /\ Budget(MaxSessionRaceRequests)
       /\ \E r \in Reqs :
             \/ RegisterFindOne(r, "a@x.com", "alice", "Secret1!")
             \/ LoginFindOne(r, "a@x.com", "Secret1!")
             \/ \E tok \in issued : VerifyJWT(r, "logout", tok, "cookie")
    \/ \E r \in Reqs :
          \/ RegisterStep(r)
          \/ LoginStep(r)
          \/ LogoutUpdate(r)

SpecSessionRace == Init /\ [][NextSessionRace]_vars

\* Every route of the controller that saves a record, for one user and one
\* request at a time: register, login, logout, verify-email and
\* resend-email-verification.
NextFrame ==
    \/ /\ Budget(MaxFrameRequests)
       /\ \/ RegisterFindOne(1, "a@x.com", "alice", "Secret1!")
          \/ \E p \in Passwords : LoginFindOne(1, "a@x.com", p)
          \/ \E route \in {"logout", "resend"}, tok \in issued :
                VerifyJWT(1, route, tok, "cookie")
          \/ \E plain \in Plaintexts("verify") : VerifyEmailFindOne(1, plain)
    \/ RegisterStep(1)
    \/ LoginStep(1)
    \/ LogoutUpdate(1)
    \/ VerifyEmailSave(1)
    \/ ResendFindById(1)
    \/ ResendSave(1)
    \/ ResendSendEmail(1)

SpecFrame == Init /\ [][NextFrame]_vars

\* Register and login for one user, one request at a time, with a store
\* and a signer that may fail during login's token step.
NextFault ==
    \/ Tick(SessionRaceInstants)
    \/ /\ Budget(MaxFaultRequests)
       /\ \/ RegisterFindOne(1, "a@x.com", "alice", "Secret1!")
          \/ \E p \in Passwords : LoginFindOne(1, "a@x.com", p)
    \/ RegisterStep(1)
    \/ LoginStep(1)
    \/ GenerateThrows(1)

SpecFault == Init /\ [][NextFault]_vars

\* Two users' requests, two at a time: register, login, logout,
\* verify-email and resend-email-verification interleaved at every await.
Accounts == {<<"a@x.com", "alice">>, <<"b@x.com", "bob">>}

NextTwoUsers ==
    \/ /\ Budget(MaxTwoUserRequests)
       /\ \E r \in Reqs :
             \/ \E a \in Accounts : RegisterFindOne(r, a[1], a[2], "Secret1!")
             \/ \E a \in Accounts : LoginFindOne(r, a[1], "Secret1!")
             \/ \E route \in {"logout", "resend"}, tok \in issued :
                   VerifyJWT(r, route, tok, "cookie")
             \/ \E plain \in Plaintexts("verify") : VerifyEmailFindOne(r, plain)
    \/ \E r \in Reqs :
          \/ RegisterStep(r)
          \/ LoginStep(r)
          \/ LogoutUpdate(r)
          \/ VerifyEmailSave(r)
          \/ ResendFindById(r)
          \/ ResendSave(r)
          \/ ResendSendEmail(r)

SpecTwoUsers == Init /\ [][NextTwoUsers]_vars

\* The routes behind verifyJWT for one user, one request at a time, with
\* every kind of credential and the clock around an access token's expiry.
GuardInstants == {0, 1, ACCESS_TOKEN_EXPIRY, ACCESS_TOKEN_EXPIRY + 1}

NextGuard ==
    \/ Tick(GuardInstants)
    \/ /\ Budget(MaxGuardRequests)
       /\ \/ RegisterFindOne(1, "a@x.com", "alice", "Secret1!")
          \/ LoginFindOne(1, "a@x.com", "Secret1!")
          \/ \E route \in {"logout", "me", "resend"},
                tok \in Credentials \cup {Orphan},
                via \in {"cookie", "header"} : VerifyJWT(1, route, tok, via)
    \/ RegisterStep(1)
    \/ LoginStep(1)
    \/ LogoutUpdate(1)
    \/ ResendFindById(1)
    \/ ResendSave(1)
    \/ ResendSendEmail(1)

SpecGuard == Init /\ [][NextGuard]_vars

\* The password routes for one user, one request at a time: register,
\* login, change-password, forgot-password and reset-password.
NextPassword ==
    \/ Tick(Instants)
    \/ /\ Budget(MaxPasswordRequests)
       /\ \/ RegisterFindOne(1, "a@x.com", "alice", "Secret1!")
          \/ \E p \in Passwords : LoginFindOne(1, "a@x.com", p)
          \/ \E tok \in issued, old \in Passwords, new \in Passwords :
                ChangeVerifyJWT(1, tok, old, new)
          \/ ForgotFindOne(1, "a@x.com")
          \/ \E plain \in Plaintexts("reset") \cup {UnknownPlain},
                new \in Passwords : ResetFindOne(1, plain, new)
    \/ RegisterStep(1)
    \/ LoginStep(1)
    \/ ChangeFindById(1)
    \/ ChangeSave(1)
    \/ ForgotSave(1)
    \/ ForgotSendEmail(1)
    \/ ResetSave(1)

SpecPassword == Init /\ [][NextPassword]_vars

-----------------------------------------------------------------------------
(* Steps, as the properties below speak of them *)

\* A request of route op is received in this step.
Received(r, op) ==
    /\ started' = started + 1
    /\ IF req' = req THEN last'.op = op
       ELSE req[r].pc = "idle" /\ req'[r].pc # "idle" /\ req'[r].op = op

\* That request after the step: waiting in its slot, or answered.
Request(r, op) == IF req' = req THEN last' ELSE req'[r]

\* The request in slot r is answered in this step; last' is the response.
Answered(r) == req[r].pc # "idle" /\ req'[r].pc = "idle"

\* Email e is the address of record i.
HasEmail(i, e) == users[i].email = Lower(e)

-----------------------------------------------------------------------------
(* C1: Login outcomes by case.  A missing email or password is answered    *)
(* 400; an email no record has, 404; an existing record and a password     *)
(* that does not match, 401; only an existing record with the matching     *)
(* password goes on, and its 200 carries an access and a refresh token.    *)

C1_Cases(r) ==
    LET a == Request(r, "login")
        missing == a.email = Missing \/ a.password = Missing
        known == \E i \in Ids : HasEmail(i, a.email)
        match == \E i \in Ids : /\ HasEmail(i, a.email)
                                /\ users[i].password.alg = "bcrypt"
                                /\ users[i].password.text = a.password
    IN  /\ missing => a.pc = "done" /\ a.status = 400
        /\ ~missing /\ ~known => a.pc = "done" /\ a.status = 404
        /\ ~missing /\ known /\ ~match => a.pc = "done" /\ a.status = 401
        /\ a.pc = "done" => /\ a.accessToken = NoToken
                            /\ a.refreshToken = NoToken
                            /\ a.status \in {400, 401, 404}
        /\ a.pc # "done" => ~missing /\ match

C1_Success(r) ==
    req[r].op = "login" =>
        /\ last'.status \in {200, 500}
        /\ last'.status = 200 =>
              /\ JwtVerify(last'.accessToken, ACCESS_TOKEN_SECRET, last'.accessToken.iat)
              /\ JwtVerify(last'.refreshToken, REFRESH_TOKEN_SECRET, last'.refreshToken.iat)
              /\ last'.accessToken.sub = req[r].uid
              /\ last'.refreshToken.sub = req[r].uid

C1_LoginOutcomes ==
    [][\A r \in Reqs : /\ Received(r, "login") => C1_Cases(r)
                       /\ Answered(r) => C1_Success(r)]_vars

\* A login with the right password was answered 200 with both tokens.
C1_Witness ==
    /\ last.op = "login" /\ last.status = 200
    /\ last.accessToken # NoToken /\ last.refreshToken # NoToken

-----------------------------------------------------------------------------
(* C2: after a successful Logout, a refresh with a refresh token issued    *)
(* before it is answered 401: the record no longer holds the reference.    *)

\* The refresh tokens handed out so far for record i.
RefreshTokensOf(i) ==
    {t \in issued : t.key = REFRESH_TOKEN_SECRET /\ t.sub = i}

C2_LogoutRevokesRefresh ==
    [][\A r \in Reqs :
         /\ (Answered(r) /\ req[r].op = "logout" /\ last'.status = 200) =>
               /\ ~Present(users'[req[r].uid], "refreshToken")
               /\ \A t \in RefreshTokensOf(req[r].uid) : RefreshCheck(t)' = 401
         /\ (Received(r, "refresh")
               /\ Request(r, "refresh").cred.sub \in Ids
               /\ ~Present(users[Request(r, "refresh").cred.sub], "refreshToken")) =>
               /\ Request(r, "refresh").pc = "done"
               /\ Request(r, "refresh").status = 401
               /\ Request(r, "refresh").accessToken = NoToken
               /\ users' = users]_vars

\* A refresh with an issued, unexpired refresh token of a logged-out user
\* was answered 401.
C2_Witness ==
    /\ last.op = "refresh" /\ last.status = 401
    /\ last.cred \in issued
    /\ JwtVerify(last.cred, REFRESH_TOKEN_SECRET, now)
    /\ last.cred.sub \in Ids
    /\ ~Present(users[last.cred.sub], "refreshToken")

-----------------------------------------------------------------------------
(* C3: single active session: once a later Login of the same user has     *)
(* completed, no refresh token issued to that user before it can be used   *)
(* to refresh.                                                             *)

LoginCompletes(r) ==
    Answered(r) /\ req[r].op = "login" /\ last'.status = 200

C3_OldTokenDead ==
    [][\A r \in Reqs : LoginCompletes(r) =>
         \A t \in RefreshTokensOf(req[r].uid) : RefreshCheck(t)' = 401]_vars

-----------------------------------------------------------------------------
(* C4: a verification token is single-use.  Once VerifyEmail has succeeded *)
(* with plaintext t, every later VerifyEmail with t is answered 400 and    *)
(* changes no record; the successful call left no token or expiry stored.  *)

C4_VerifyTokenSingleUse ==
    [][\A r \in Reqs :
         /\ (Answered(r) /\ req[r].op = "verify" /\ last'.status = 200) =>
               /\ users'[req[r].uid].emailVerificationToken = NoDigest
               /\ users'[req[r].uid].emailVerificationExpiry = NoDate
               /\ users'[req[r].uid].isEmailVerified
         /\ (Received(r, "verify") /\ Request(r, "verify").tok \in consumed) =>
               /\ Request(r, "verify").pc = "done"
               /\ Request(r, "verify").status = 400
               /\ users' = users]_vars

\* A second VerifyEmail with a consumed plaintext, still inside its
\* twenty minutes, was answered 400.
C4_Witness ==
    /\ last.op = "verify" /\ last.status = 400
    /\ last.tok \in consumed
    /\ now < TemporaryTokenWindow
    /\ \E i \in Ids : users[i].isEmailVerified

-----------------------------------------------------------------------------
(* C5: VerifyEmail with an expired token (the clock at or past the stored  *)
(* expiry) is answered as VerifyEmail with a token no record holds: 400,   *)
(* "Token is invalid or expired"; no record is modified in either case.    *)

\* Record i holds the hash of plaintext t and its expiry has been reached.
ExpiredFor(i, t) ==
    /\ users[i].emailVerificationToken = Sha256(t)
    /\ users[i].emailVerificationExpiry # NoDate
    /\ users[i].emailVerificationExpiry <= now

\* No record holds the hash of plaintext t.
UnknownToken(t) ==
    \A i \in Ids : users[i].emailVerificationToken # Sha256(t)

C5_ExpiredAsUnknown ==
    [][\A r \in Reqs :
         (/\ Received(r, "verify")
          /\ Request(r, "verify").tok # NoPlain
          /\ \/ \E i \in Ids : ExpiredFor(i, Request(r, "verify").tok)
             \/ UnknownToken(Request(r, "verify").tok)) =>
               /\ Request(r, "verify").pc = "done"
               /\ Request(r, "verify").status = 400
               /\ Request(r, "verify").msg = "Token is invalid or expired"
               /\ users' = users]_vars

\* A VerifyEmail with a stored but expired token was answered 400.
C5_Witness ==
    /\ last.op = "verify" /\ last.status = 400
    /\ last.msg = "Token is invalid or expired"
    /\ \E i \in Ids : ExpiredFor(i, last.tok)

\* A VerifyEmail with a token no record holds was answered 400.
C5_WitnessUnknown ==
    /\ last.op = "verify" /\ last.status = 400
    /\ last.msg = "Token is invalid or expired"
    /\ last.tok = UnknownPlain

-----------------------------------------------------------------------------
(* C6: the user summary returned by Register, Login and GetCurrentUser     *)
(* never contains the password hash, the refresh token, or a pending-      *)
(* secret field (the email-verification token and expiry, the forgot-      *)
(* password token and expiry), whatever state the record is in.            *)

SecretFields ==
    {"password", "refreshToken",
     "emailVerificationToken", "emailVerificationExpiry",
     "forgotPasswordToken", "forgotPasswordExpiry"}

C6_SummaryHidesSecrets ==
    (last.op \in {"register", "login", "me"} /\ last.status \in {200, 201})
        => DOMAIN last.user \cap SecretFields = {}

-----------------------------------------------------------------------------
(* C7: Register with an email or a username that already belongs to a      *)
(* record is answered 409, creates no record, sends no email and leaves    *)
(* the existing records unchanged.                                         *)

Taken(email, username) ==
    \E i \in Ids : \/ users[i].email = Lower(email)
                   \/ users[i].username = Lower(username)

C7_DuplicateRegisterConflict ==
    [][\A r \in Reqs :
         (/\ Received(r, "register")
          /\ Taken(Request(r, "register").email,
                   Request(r, "register").username)) =>
               /\ Request(r, "register").pc = "done"
               /\ Request(r, "register").status = 409
               /\ users' = users
               /\ outbox' = outbox]_vars

\* A Register that names a taken username under a free email was
\* answered 409.
C7_Witness ==
    /\ last.op = "register" /\ last.status = 409
    /\ \E i \in Ids : /\ users[i].username = Lower(last.username)
                      /\ users[i].email # Lower(last.email)
    /\ \A i \in Ids : users[i].email # Lower(last.email)

-----------------------------------------------------------------------------
(* C8: when two Register requests for the same email or username both      *)
(* pass the existence check, the uniqueness violation that create raises   *)
(* is reported to the losing request as Conflict (409), as in the          *)
(* sequential duplicate case.                                              *)

C8_RaceLoserConflict ==
    [][\A r \in Reqs :
         (Answered(r) /\ req[r].pc = "reg_create") => last'.status = 409]_vars

-----------------------------------------------------------------------------
(* C9: in every reachable state, under any interleaving of Register        *)
(* requests, no two user records have the same email and no two have the   *)
(* same username.                                                          *)

C9_UniqueIdentity ==
    \A i, j \in Ids :
        i # j => /\ users[i].email # users[j].email
                 /\ users[i].username # users[j].username

\* Two Registers raced past the existence check and the store refused the
\* second create.
C9_Witness ==
    /\ last.op = "register" /\ last.status = DriverErrorStatus
    /\ \E i \in Ids : \/ users[i].email = Lower(last.email)
                      \/ users[i].username = Lower(last.username)

-----------------------------------------------------------------------------
(* C10: Register followed by Login with the same email and password        *)
(* succeeds and returns a user summary carrying the registered username    *)
(* (and no password); GetCurrentUser with the access token from that       *)
(* Login returns the same user.                                            *)

C10_RegisterLoginMe ==
    [][\A r \in Reqs :
         /\ (Answered(r) /\ req[r].op = "register" /\ last'.status = 201) =>
               /\ users'[last'.uid].username = Lower(last'.username)
               /\ last'.user.username = Lower(last'.username)
         /\ (/\ Received(r, "login")
             /\ last.op = "register" /\ last.status = 201
             /\ Request(r, "login").email = last.email
             /\ Request(r, "login").password = last.password) =>
               /\ Request(r, "login").pc = "gen_find"
               /\ Request(r, "login").uid = last.uid
         /\ (Answered(r) /\ req[r].op = "login") =>
               /\ last'.status = 200
               /\ last'.user._id = req[r].uid
               /\ last'.user.username = users[req[r].uid].username
               /\ "password" \notin DOMAIN last'.user
               /\ last'.accessToken.sub = req[r].uid
         /\ (/\ Received(r, "me")
             /\ last.op = "login" /\ last.status = 200
             /\ Request(r, "me").cred = last.accessToken
             /\ now < last.accessToken.exp) =>
               /\ Request(r, "me").status = 200
               /\ Request(r, "me").user = last.user]_vars

\* Register, Login and GetCurrentUser in a row, each answered with success.
C10_Witness ==
    /\ last.op = "me" /\ last.status = 200
    /\ started = 3 /\ Len(users) = 1
    /\ last.user.username = users[1].username
    /\ last.cred \in issued

-----------------------------------------------------------------------------
(* C11: Logout clears the caller's refresh token reference and is          *)
(* idempotent: a second Logout for the same user, whose record is already  *)
(* without a refresh token, also succeeds and leaves the record without    *)
(* one.                                                                    *)

C11_LogoutIdempotent ==
    [][\A r \in Reqs :
         (Answered(r) /\ req[r].op = "logout") =>
            /\ last'.status = 200
            /\ ~Present(users'[req[r].uid], "refreshToken")
            /\ users' = [users EXCEPT ![req[r].uid].refreshToken = NoToken]
            /\ ~Present(users[req[r].uid], "refreshToken") => users' = users]_vars

\* A Logout of a user whose record held no refresh token any more was
\* answered 200.
C11_Witness ==
    /\ last.op = "logout" /\ last.status = 200
    /\ last.prior = NoToken
    /\ ~Present(users[last.uid], "refreshToken")

-----------------------------------------------------------------------------
(* C12: after Logout, a request that presents the access token issued      *)
(* before the logout is still authenticated (verifyJWT passes:             *)
(* GetCurrentUser and a second Logout succeed) until that token's own      *)
(* expiry; Logout never invalidates access tokens.                         *)

\* The access tokens handed out so far.
AccessTokens == {t \in issued : t.key = ACCESS_TOKEN_SECRET}

\* The user of access token t has logged out since t was issued: every
\* Login stores a refresh token and only Logout removes it.
LoggedOut(t) ==
    t \in AccessTokens /\ ~Present(users[t.sub], "refreshToken")

C12_AccessTokenOutlivesLogout ==
    [][\A r \in Reqs :
         /\ (Answered(r) /\ req[r].op = "logout") =>
               \A t \in AccessTokens : VerifyJWTCheck(t)' = VerifyJWTCheck(t)
         /\ (Received(r, "me") /\ LoggedOut(Request(r, "me").cred)) =>
               IF now < Request(r, "me").cred.exp
               THEN /\ Request(r, "me").status = 200
                    /\ Request(r, "me").user._id = Request(r, "me").cred.sub
               ELSE Request(r, "me").status = 401
         /\ (Received(r, "logout") /\ LoggedOut(Request(r, "logout").cred)) =>
               IF now < Request(r, "logout").cred.exp
               THEN Request(r, "logout").pc = "logout_update"
               ELSE Request(r, "logout").status = 401]_vars

\* GetCurrentUser with the access token of a user who has logged out since
\* was answered 200.
C12_Witness ==
    /\ last.op = "me" /\ last.status = 200
    /\ LoggedOut(last.cred)

\* The same token, presented at its expiry, was refused.
C12_WitnessExpired ==
    /\ last.op = "me" /\ last.status = 401
    /\ LoggedOut(last.cred)
    /\ now = last.cred.exp

-----------------------------------------------------------------------------
(* C13: after a successful Login, no other flow running for the same user, *)
(* the record's refresh token reference equals the refresh token returned  *)
(* to the caller by that Login.                                            *)

C13_StoredIsReturned ==
    [][\A r \in Reqs : LoginCompletes(r) =>
         /\ last'.refreshToken # NoToken
         /\ last'.refreshToken.key = REFRESH_TOKEN_SECRET
         /\ last'.refreshToken.sub = req[r].uid
         /\ users'[req[r].uid].refreshToken = last'.refreshToken]_vars

\* A Login was answered 200 and the record holds the refresh token the
\* response carries.
C13_Witness ==
    /\ last.op = "login" /\ last.status = 200
    /\ Present(users[last.uid], "refreshToken")
    /\ users[last.uid].refreshToken = last.refreshToken

-----------------------------------------------------------------------------
(* C14: isEmailVerified is false on every newly created record, becomes    *)
(* true only as the effect of a successful VerifyEmail, becomes true at    *)
(* most once per record (no second successful verification of an already   *)
(* verified record), and never goes back to false.                         *)

\* The request in slot r is a VerifyEmail answered with success in this step.
VerifySucceeds(r) ==
    Answered(r) /\ req[r].op = "verify" /\ last'.status = 200

C14_VerifiedOnce ==
    [][/\ \A i \in 1..Len(users') :
            i \notin Ids => ~users'[i].isEmailVerified
       /\ \A i \in Ids :
            /\ users[i].isEmailVerified => users'[i].isEmailVerified
            /\ (~users[i].isEmailVerified /\ users'[i].isEmailVerified) =>
                  \E r \in Reqs : VerifySucceeds(r) /\ req[r].uid = i
       /\ \A r \in Reqs :
            VerifySucceeds(r) => ~users[req[r].uid].isEmailVerified]_vars

-----------------------------------------------------------------------------
(* C15: ResendEmailVerification for a caller whose email is already        *)
(* verified is answered 409; it generates no token, sends no email and     *)
(* leaves the record unchanged.                                            *)

\* The Resend in slot r reads its caller's record in this step.
ResendReads(r) == req[r].op = "resend" /\ req[r].pc = "resend_find"

C15_ResendVerifiedConflict ==
    [][\A r \in Reqs :
         (/\ ResendReads(r) /\ req'[r] # req[r]
          /\ users[req[r].uid].isEmailVerified) =>
               /\ Answered(r)
               /\ last'.status = 409
               /\ serial' = serial
               /\ outbox' = outbox
               /\ users' = users]_vars

\* A Resend of a verified caller was answered 409.
C15_Witness ==
    /\ last.op = "resend" /\ last.status = 409
    /\ users[last.uid].isEmailVerified
    /\ last.plain = NoPlain

-----------------------------------------------------------------------------
(* C16: a record holds at most one pending verification secret, and a new  *)
(* one made by ResendEmailVerification overwrites the previous one: after  *)
(* Resend, VerifyEmail with a plaintext issued earlier (at Register or by  *)
(* an earlier Resend) fails, and only the newest plaintext verifies.       *)

\* The plaintexts generated so far.
Generated == 1..serial

\* The plaintexts that select record i in verifyUserEmail's query.
Verifying(i) ==
    {p \in Generated : i \in findByVerificationToken(Sha256(p), now)}

\* The Resend in slot r saves its token in this step.
ResendSaves(r) ==
    req[r].op = "resend" /\ req[r].pc = "resend_save" /\ req'[r] # req[r]

\* Plaintext p was mailed to record i's address and a later one was too.
Superseded(i, p) ==
    \E m, n \in outbox : /\ m.to = users[i].email /\ m.plain = p
                         /\ n.to = users[i].email /\ n.plain > p

C16_ResendOverwrites ==
    [][/\ \A i \in 1..Len(users') : Cardinality(Verifying(i)') <= 1
       /\ \A r \in Reqs : ResendSaves(r) =>
            /\ users'[req[r].uid].emailVerificationToken = Sha256(req[r].plain)
            /\ Verifying(req[r].uid)' =
                  IF now < req[r].expiry THEN {req[r].plain} ELSE {}
       /\ \A r \in Reqs :
            (/\ Received(r, "verify")
             /\ \E i \in Ids : Superseded(i, Request(r, "verify").tok)) =>
                  /\ Request(r, "verify").pc = "done"
                  /\ Request(r, "verify").status = 400
                  /\ users' = users]_vars

-----------------------------------------------------------------------------
(* C17: a verification token generated at time T has expiry T + 20         *)
(* minutes, and VerifyEmail with its plaintext succeeds only while the     *)
(* clock is strictly before that expiry (and the token is still the        *)
(* stored pending secret); at the expiry instant and after it the call     *)
(* fails.                                                                  *)

\* Twenty minutes, in the clock's seconds.
TwentyMinutes == 20 * 60

\* The request in slot r generates a temporary token in this step.
Generates(r) ==
    /\ req'[r].pc \in {"reg_save", "resend_save"}
    /\ req[r].pc \notin {"reg_save", "resend_save"}

\* Record i holds the digest of plaintext t as its pending secret.
Pending(i, t) ==
    /\ users[i].emailVerificationToken = Sha256(t)
    /\ users[i].emailVerificationExpiry # NoDate

C17_TwentyMinuteWindow ==
    [][\A r \in Reqs :
         /\ Generates(r) =>
               /\ req'[r].expiry = now + TwentyMinutes
               /\ req'[r].hashed = Sha256(req'[r].plain)
         /\ (req[r].pc \in {"reg_save", "resend_save"} /\ req'[r] # req[r]) =>
               /\ users'[req[r].uid].emailVerificationToken = req[r].hashed
               /\ users'[req[r].uid].emailVerificationExpiry = req[r].expiry
         /\ (Received(r, "verify") /\ Request(r, "verify").tok # NoPlain) =>
               LET t == Request(r, "verify").tok
               IN  IF \E i \in Ids : /\ Pending(i, t)
                                     /\ now < users[i].emailVerificationExpiry
                   THEN Request(r, "verify").pc = "verify_save"
                   ELSE /\ Request(r, "verify").pc = "done"
                        /\ Request(r, "verify").status = 400
         /\ VerifySucceeds(r) => Pending(req[r].uid, req[r].tok)]_vars

\* VerifyEmail with the pending token, at the very instant of its expiry,
\* was answered 400.
C17_Witness ==
    /\ last.op = "verify" /\ last.status = 400
    /\ \E i \in Ids : /\ Pending(i, last.tok)
                      /\ users[i].emailVerificationExpiry = now

\* VerifyEmail with a pending token one second after it was generated
\* was answered 200.
C17_WitnessInTime ==
    /\ last.op = "verify" /\ last.status = 200
    /\ now = 1

-----------------------------------------------------------------------------
(* C18: a failure of email dispatch does not fail Register or              *)
(* ResendEmailVerification: the flow still returns success (201 / 200)     *)
(* and the record stays persisted with the new pending verification        *)
(* secret.                                                                 *)

\* The request in slot r has its mail refused by the transporter in this
\* step (a mail that is delivered is new to the outbox).
DispatchFails(r) ==
    /\ req[r].pc \in {"reg_mail", "resend_mail"}
    /\ req'[r] # req[r]
    /\ outbox' = outbox

\* No mail carrying plaintext p was delivered.
Undelivered(p) == \A m \in outbox : m.plain # p

C18_WitnessResend ==
    /\ last.op = "resend" /\ last.status = 200
    /\ Undelivered(last.plain)
    /\ Pending(last.uid, last.plain)

-----------------------------------------------------------------------------
(* C19: in every reachable state the password stored on a record is the    *)
(* hash of a password and never the plaintext supplied at registration,    *)
(* also in the window between the record's creation and the second save    *)
(* inside Register.                                                        *)

C19_PasswordStoredHashed ==
    \A i \in Ids :
        /\ users[i].password \notin {Plain(p) : p \in Passwords}
        /\ \E p \in Passwords : BcryptCompare(p, users[i].password)

\* A Register is between User.create and its second save: the record is
\* there, without a verification token yet.
C19_Witness ==
    \E r \in Reqs :
        /\ req[r].op = "register" /\ req[r].pc = "reg_save"
        /\ ~Present(users[req[r].uid], "emailVerificationToken")
        /\ BcryptCompare(req[r].password, users[req[r].uid].password)

-----------------------------------------------------------------------------
(* C20: the plaintext of a verification token is never written to the      *)
(* store and never included in an API response: the record holds only its  *)
(* digest and expiry, and the plaintext leaves the core only inside the    *)
(* one email dispatched for it.                                            *)

\* What the caller is sent back of an answered request.
ResponseBody(q) ==
    [status |-> q.status, msg |-> q.msg, user |-> q.user,
     accessToken |-> q.accessToken, refreshToken |-> q.refreshToken]

VerificationFields ==
    {"emailVerificationToken", "emailVerificationExpiry", "unHashedToken"}

C20_PlaintextOnlyMailed ==
    /\ \A i \in Ids :
          /\ users[i].emailVerificationToken
                \in {NoDigest} \cup {Sha256(p) : p \in Generated}
          /\ users[i].emailVerificationToken
                \notin {PlainToken(p) : p \in Generated}
          /\ Present(users[i], "emailVerificationToken")
                <=> users[i].emailVerificationExpiry # NoDate
    /\ DOMAIN ResponseBody(last).user \cap VerificationFields = {}
    /\ \A m, n \in outbox :
          /\ m.plain \in Generated
          /\ m.purpose = "verify"
          /\ \E i \in Ids : users[i].email = m.to
          /\ m.plain = n.plain => m = n

\* A Resend was answered while its token's digest is on the record and its
\* plaintext in the mail delivered for it.
C20_Witness ==
    /\ last.op = "resend" /\ last.status = 200
    /\ Pending(last.uid, last.plain)
    /\ \E m \in outbox : m.plain = last.plain /\ m.to = users[last.uid].email

-----------------------------------------------------------------------------
(* C21: verifyJWT fails closed.  A request with no token, a malformed      *)
(* token, a token with a wrong signature, an expired token, or a token     *)
(* whose subject matches no record is answered 401; the handler behind it  *)
(* is never invoked and no user is attached to the request.                *)

Guarded == {"logout", "me", "resend"}

\* What is wrong with the token taken from the request, if anything.
Defect(token) ==
    CASE token = NoToken -> "missing"
      [] token.key \notin {ACCESS_TOKEN_SECRET, REFRESH_TOKEN_SECRET}
           \/ token.lead # "" -> "malformed"
      [] token.key = REFRESH_TOKEN_SECRET -> "signature"
      [] now >= token.exp -> "expired"
      [] token.sub \notin Ids -> "subject"
      [] OTHER -> "none"

C21_FailsClosed ==
    [][\A r \in Reqs : \A route \in Guarded :
         (Received(r, route) /\ Defect(Request(r, route).cred) # "none") =>
            /\ Request(r, route).pc = "done"
            /\ Request(r, route).status = 401
            /\ Request(r, route).user = NoSummary
            /\ Request(r, route).uid = 0
            /\ users' = users /\ outbox' = outbox /\ serial' = serial]_vars

\* A request with a well-signed, unexpired token of a record the
\* collection does not hold was answered 401.
C21_Witness ==
    /\ last.op \in Guarded /\ last.status = 401
    /\ Defect(last.cred) = "subject"

\* The same for a token signed with the other secret, and for an expired one.
C21_WitnessSignature ==
    /\ last.op \in Guarded /\ last.status = 401
    /\ Defect(last.cred) = "signature" /\ now < last.cred.exp

C21_WitnessExpired ==
    /\ last.op \in Guarded /\ last.status = 401
    /\ Defect(last.cred) = "expired" /\ last.cred.sub \in Ids

-----------------------------------------------------------------------------
(* C22: an access token issued at time T with lifetime L authenticates a   *)
(* request at any time before T + L and is rejected by verifyJWT at any    *)
(* time after T + L.                                                       *)

\* The request in slot r signs its tokens in this step.
Signs(r) == req[r].pc = "gen_find" /\ req'[r].pc = "gen_save"

C22_AccessTokenLifetime ==
    [][\A r \in Reqs :
         /\ Signs(r) =>
               /\ req'[r].at.iat = now
               /\ req'[r].at.exp = now + ACCESS_TOKEN_EXPIRY
               /\ req'[r].at.key = ACCESS_TOKEN_SECRET
         /\ LoginCompletes(r) => last'.accessToken = req[r].at
         /\ \A route \in Guarded :
              (Received(r, route) /\ Request(r, route).cred \in AccessTokens) =>
                 LET t == Request(r, route).cred
                 IN  /\ now < t.iat + ACCESS_TOKEN_EXPIRY =>
                           /\ Request(r, route).status # 401
                           /\ Request(r, route).uid = t.sub
                           /\ Request(r, route).user._id = t.sub
                     /\ now > t.iat + ACCESS_TOKEN_EXPIRY =>
                           /\ Request(r, route).pc = "done"
                           /\ Request(r, route).status = 401]_vars

\* An access token was accepted one second before its expiry.
C22_Witness ==
    /\ last.op = "me" /\ last.status = 200
    /\ last.cred \in AccessTokens
    /\ now = last.cred.iat + ACCESS_TOKEN_EXPIRY - 1

\* An access token was refused one second after its expiry.
C22_WitnessAfter ==
    /\ last.op = "me" /\ last.status = 401
    /\ last.cred \in AccessTokens
    /\ now = last.cred.iat + ACCESS_TOKEN_EXPIRY + 1

-----------------------------------------------------------------------------
(* C23: after ChangePassword succeeds with the correct old password, Login *)
(* with the old password fails Unauthorized and Login with the new         *)
(* password succeeds; ChangePassword with a wrong old password fails       *)
(* Unauthorized and leaves the password hash unchanged.                    *)

\* The change-password request in slot r is answered 200 in this step.
ChangeSucceeds(r) ==
    Answered(r) /\ req[r].op = "change" /\ last'.status = 200

\* The handler in slot r compares the old password in this step.
ChangeCompares(r) == req[r].pc = "change_find" /\ req'[r] # req[r]

C23_ChangePassword ==
    [][\A r \in Reqs :
         /\ ChangeSucceeds(r) =>
               /\ isPasswordCorrect(users[req[r].uid], req[r].password)
               /\ \A e \in Emails, p \in Passwords :
                    HasEmail(req[r].uid, e) =>
                        LoginCheck(e, p)' =
                            IF p = req[r].newPassword THEN 0 ELSE 401
         /\ (ChangeCompares(r)
               /\ ~isPasswordCorrect(users[req[r].uid], req[r].password)) =>
               /\ Answered(r)
               /\ last'.status = 401
               /\ users' = users
         /\ (/\ Received(r, "login")
             /\ last.op = "change" /\ last.status = 200
             /\ HasEmail(last.uid, Request(r, "login").email)) =>
               IF Request(r, "login").password = last.newPassword
               THEN Request(r, "login").pc = "gen_find"
               ELSE /\ Request(r, "login").pc = "done"
                    /\ Request(r, "login").status = 401]_vars

\* No reset mail went out: the stored password differs from the registered
\* one through ChangePassword alone.
ChangedOnly == Len(users) = 1 /\ Plaintexts("reset") = {} /\ consumed = {}

\* After a change from Secret1! to Passw0rd!, Login with Secret1! was
\* answered 401.
C23_Witness ==
    /\ ChangedOnly
    /\ users[1].password.text = "Passw0rd!"
    /\ last.op = "login" /\ last.password = "Secret1!" /\ last.status = 401

\* After the same change, Login with Passw0rd! was answered 200.
C23_WitnessNew ==
    /\ ChangedOnly
    /\ users[1].password.text = "Passw0rd!"
    /\ last.op = "login" /\ last.password = "Passw0rd!" /\ last.status = 200

\* A ChangePassword with a valid access token and a wrong old password was
\* answered 401.
C23_WitnessWrong ==
    /\ ChangedOnly
    /\ last.op = "change" /\ last.status = 401
    /\ last.msg = "Invalid old password"
    /\ users[1].password.text = "Secret1!"

-----------------------------------------------------------------------------
(* C24: ResetPassword with a valid, unexpired reset token replaces the     *)
(* password hash and clears the pending reset secret, so a second          *)
(* ResetPassword with the same token fails; an expired or unknown reset    *)
(* token fails and leaves the password hash unchanged.                     *)

\* The reset-password request in slot r is answered 200 in this step.
ResetSucceeds(r) ==
    Answered(r) /\ req[r].op = "reset" /\ last'.status = 200

\* Record i holds the digest of plaintext t as its pending reset secret.
ResetPending(i, t) ==
    /\ users[i].forgotPasswordToken = Sha256(t)
    /\ users[i].forgotPasswordExpiry # NoDate

C24_ResetPassword ==
    [][\A r \in Reqs :
         /\ ResetSucceeds(r) =>
               /\ ResetPending(req[r].uid, req[r].tok)
               /\ users'[req[r].uid].password # users[req[r].uid].password
               /\ isPasswordCorrect(users'[req[r].uid], req[r].newPassword)
               /\ users'[req[r].uid].forgotPasswordToken = NoDigest
               /\ users'[req[r].uid].forgotPasswordExpiry = NoDate
         /\ Received(r, "reset") =>
               LET t == Request(r, "reset").tok
               IN  IF \E i \in Ids : /\ ResetPending(i, t)
                                     /\ now < users[i].forgotPasswordExpiry
                   THEN /\ Request(r, "reset").pc = "reset_save"
                        /\ ResetPending(Request(r, "reset").uid, t)
                        /\ t \notin consumed
                   ELSE /\ Request(r, "reset").pc = "done"
                        /\ Request(r, "reset").status >= 400
                        /\ users' = users
         /\ (Received(r, "reset") /\ Request(r, "reset").tok \in consumed) =>
               /\ Request(r, "reset").pc = "done"
               /\ Request(r, "reset").status >= 400
               /\ users' = users]_vars

\* A second ResetPassword with a token that had reset the password before
\* was refused.
C24_Witness ==
    /\ last.op = "reset" /\ last.status = 400
    /\ last.tok \in consumed

\* A ResetPassword with a mailed token was refused after its expiry, the
\* secret still pending.
C24_WitnessExpired ==
    /\ last.op = "reset" /\ last.status = 400
    /\ \E i \in Ids : /\ ResetPending(i, last.tok)
                       /\ users[i].forgotPasswordExpiry <= now
                       /\ users[i].password.text = "Secret1!"

\* A ResetPassword with a token no mail carried was refused.
C24_WitnessUnknown ==
    /\ last.op = "reset" /\ last.status = 400
    /\ last.tok = UnknownPlain
    /\ Len(users) = 1

-----------------------------------------------------------------------------
(* C25: single use holds under concurrency.  When two VerifyEmail requests *)
(* carrying the same valid plaintext run interleaved (both may look the    *)
(* record up before either saves), at most one of them returns success: no *)
(* VerifyEmail succeeds with a plaintext another one has succeeded with.   *)

C25_SingleUseInterleaved ==
    [][\A r \in Reqs : VerifySucceeds(r) => req[r].tok \notin consumed]_vars

-----------------------------------------------------------------------------
(* C26: in every reachable state, including under interleaving of          *)
(* ResendEmailVerification with VerifyEmail for the same user, a record    *)
(* with isEmailVerified = true holds no pending verification secret: its   *)
(* token and its expiry are both absent.                                   *)

C26_VerifiedHoldsNoSecret ==
    \A i \in Ids :
        users[i].isEmailVerified =>
            /\ users[i].emailVerificationToken = NoDigest
            /\ users[i].emailVerificationExpiry = NoDate

-----------------------------------------------------------------------------
(* C27: concurrent Login and Logout requests for the same user are         *)
(* last-writer-wins on the refresh token reference.  Every Login's save    *)
(* stores its own token whatever the record held, every Logout's update    *)
(* leaves the reference absent, both answer 200 whatever happened in       *)
(* between, and no other step touches the reference: once all have         *)
(* completed it is what the last of these writes left, so a Logout that    *)
(* has returned may be followed by a state where it is present again.      *)

\* The Login in slot r saves its refresh token in this step.
LoginSaves(r) == req[r].pc = "gen_save" /\ req'[r] # req[r]

\* The Logout in slot r runs its update and is answered in this step.
LogoutUpdates(r) == req[r].pc = "logout_update" /\ req'[r] # req[r]

C27_LastWriterWins ==
    [][/\ \A r \in Reqs :
            /\ LoginSaves(r) =>
                  users'[req[r].uid].refreshToken = req[r].rt
            /\ LogoutUpdates(r) =>
                  /\ ~Present(users'[req[r].uid], "refreshToken")
                  /\ Answered(r) /\ last'.status = 200
            /\ LoginCompletes(r) => last'.refreshToken = req[r].rt
       /\ \A i \in Ids :
            users'[i].refreshToken # users[i].refreshToken =>
                \E r \in Reqs : /\ req[r].uid = i
                                /\ LoginSaves(r) \/ LogoutUpdates(r)]_vars

\* A Logout has returned 200 and the reference is present again, stored
\* by a Login that signed its token before the Logout's access token was
\* issued and saved it after the Logout's update.
C27_Witness ==
    /\ last.op = "logout" /\ last.status = 200
    /\ \E r \in Reqs :
          /\ req[r].op = "login" /\ req[r].pc = "login_find"
          /\ req[r].uid = last.uid
          /\ req[r].rt.iat < last.cred.iat
          /\ users[last.uid].refreshToken = req[r].rt

\* A Login has returned 200 with a refresh token and the reference is
\* absent: a Logout that overlapped it wrote last.
C27_WitnessLogoutLast ==
    /\ last.op = "login" /\ last.status = 200
    /\ last.refreshToken # NoToken
    /\ ~Present(users[last.uid], "refreshToken")
    /\ \A r \in Reqs : req[r].pc = "idle"

-----------------------------------------------------------------------------
(* C28: the stored password hash is computed once from the plaintext and   *)
(* is not changed by any save that does not modify the password.  The      *)
(* record is created with the bcrypt hash of the plaintext; Register's     *)
(* second save, Login, Logout, VerifyEmail and ResendEmailVerification     *)
(* all leave it as it is, so Login with the registered password keeps      *)
(* succeeding after any sequence of these operations.                      *)

\* The record created in this step, if one is.
Created == {i \in 1..Len(users') : i \notin Ids}

C28_PasswordHashKept ==
    [][/\ \A i \in Ids : users'[i].password = users[i].password
       /\ \A i \in Created :
            \E r \in Reqs : /\ req[r].pc = "reg_create"
                            /\ users'[i].password.alg = "bcrypt"
                            /\ users'[i].password.of = "plain"
                            /\ users'[i].password.text = req[r].password
                            /\ isPasswordCorrect(users'[i], req[r].password)
       /\ \A r \in Reqs :
            (/\ Received(r, "login")
             /\ Request(r, "login").password \in RegisterPasswords
             /\ \E i \in Ids : HasEmail(i, Request(r, "login").email)) =>
                Request(r, "login").pc = "gen_find"]_vars

\* After Register, Login, a Resend and a VerifyEmail, Login with the
\* registered password was answered 200.
C28_Witness ==
    /\ started = MaxFrameRequests
    /\ last.op = "login" /\ last.status = 200
    /\ last.password \in RegisterPasswords
    /\ users[1].isEmailVerified
    /\ Cardinality(Plaintexts("verify")) = 2

\* After Register, Login, a Resend, a VerifyEmail and a Logout, the stored
\* hash still verifies the registered password.
C28_WitnessLogout ==
    /\ started = MaxFrameRequests
    /\ last.op = "logout" /\ last.status = 200
    /\ users[1].isEmailVerified
    /\ Cardinality(Plaintexts("verify")) = 2
    /\ isPasswordCorrect(users[1], "Secret1!")

-----------------------------------------------------------------------------
(* C29: a Login that fails with BadRequest, NotFound or Unauthorized       *)
(* leaves the store unchanged, in particular the target record's refresh   *)
(* token reference, and returns no access or refresh token.                *)

\* The Login received in this step by slot r is refused.
LoginRefused(r) ==
    /\ Received(r, "login")
    /\ Request(r, "login").pc = "done"
    /\ Request(r, "login").status \in {400, 404, 401}

C29_FailedLoginNoEffect ==
    [][\A r \in Reqs :
         /\ LoginRefused(r) =>
               /\ users' = users
               /\ issued' = issued
               /\ last'.accessToken = NoToken
               /\ last'.refreshToken = NoToken
         /\ (Answered(r) /\ req[r].op = "login"
               /\ last'.status \in {400, 404, 401}) => LoginRefused(r)]_vars

\* A Login with a wrong password was answered 401 while the record held a
\* refresh token, and holds it still.
C29_Witness ==
    /\ last.op = "login" /\ last.status = 401
    /\ last.accessToken = NoToken /\ last.refreshToken = NoToken
    /\ \E i \in Ids : /\ HasEmail(i, last.email)
                       /\ Present(users[i], "refreshToken")

\* A Login without a password was answered 400.
C29_WitnessBadRequest ==
    /\ last.op = "login" /\ last.status = 400
    /\ last.password = Missing
    /\ \E i \in Ids : /\ HasEmail(i, last.email)
                       /\ Present(users[i], "refreshToken")

\* A Login with an email no record has was answered 404.
C29_WitnessNotFound ==
    /\ last.op = "login" /\ last.status = 404
    /\ \E i \in Ids : Present(users[i], "refreshToken")

-----------------------------------------------------------------------------
(* C30: if loading the user, signing, or saving the refresh token fails    *)
(* during Login's token step, Login ends with Internal (500) and returns   *)
(* no access or refresh token to the caller.  A Login leaves the token     *)
(* step either with its refresh token stored, or answered 500 with no      *)
(* token in the response, nothing written and no token handed out.         *)

\* The Login in slot r takes a step of generateAccessAndRefreshToken.
TokenStep(r) ==
    /\ req[r].op = "login"
    /\ req[r].pc \in {"gen_find", "gen_save"}
    /\ req'[r] # req[r]

C30_TokenStepFailure ==
    [][\A r \in Reqs :
         /\ TokenStep(r) =>
               IF Answered(r)
               THEN /\ last'.status = 500
                    /\ last'.accessToken = NoToken
                    /\ last'.refreshToken = NoToken
                    /\ users' = users
                    /\ issued' = issued
               ELSE /\ req[r].pc = "gen_find" => req'[r].pc = "gen_save"
                    /\ req[r].pc = "gen_save" =>
                          /\ req'[r].pc = "login_find"
                          /\ users'[req[r].uid].refreshToken = req[r].rt
         /\ LoginCompletes(r) =>
               users[req[r].uid].refreshToken = last'.refreshToken]_vars

\* A Login whose save failed after signing was answered 500 without tokens.
C30_Witness ==
    /\ last.op = "login" /\ last.status = 500
    /\ last.rt # NoToken
    /\ last.accessToken = NoToken /\ last.refreshToken = NoToken
    /\ ~Present(users[last.uid], "refreshToken")

\* A Login that could not load its user or sign was answered 500 without
\* tokens.
C30_WitnessLoad ==
    /\ last.op = "login" /\ last.status = 500
    /\ last.rt = NoToken
    /\ last.accessToken = NoToken /\ last.refreshToken = NoToken

-----------------------------------------------------------------------------
(* C31: in Register and in ResendEmailVerification, the email carrying a   *)
(* plaintext token is dispatched only after the record holding that        *)
(* token's digest and expiry has been persisted.  A mail leaves only from  *)
(* a request that is past its save, it carries that request's plaintext,   *)
(* and a request gets past its save only by the step that stores the       *)
(* digest of that plaintext and its expiry on the record: no email is ever *)
(* sent for a token whose digest was not stored.                           *)

\* The request in slot r is past its save, about to call sendEmail.
Mailing(r) == req[r].pc \in {"reg_mail", "resend_mail"}

C31_MailAfterPersist ==
    [][/\ outbox' # outbox =>
            \E r \in Reqs :
               /\ Mailing(r)
               /\ req'[r] # req[r]
               /\ outbox' = outbox \cup
                     {Mail(users[req[r].uid], req[r].plain, "verify")}
       /\ \A r \in Reqs :
            (Mailing(r)' /\ ~Mailing(r)) =>
               /\ req[r].pc \in {"reg_save", "resend_save"}
               /\ req'[r].plain = req[r].plain
               /\ req[r].plain \in Generated
               /\ users'[req[r].uid].emailVerificationToken = Sha256(req[r].plain)
               /\ users'[req[r].uid].emailVerificationExpiry = req[r].expiry
               /\ req[r].expiry # NoDate]_vars

\* A Resend was answered 200, its mail is out and the record holds the
\* digest of the mailed plaintext.
C31_Witness ==
    /\ last.op = "resend" /\ last.status = 200
    /\ \E m \in outbox :
          /\ m.plain = last.plain /\ m.purpose = "verify"
          /\ m.to = users[last.uid].email
          /\ users[last.uid].emailVerificationToken = Sha256(m.plain)

\* A Register was answered 201, its mail is out and the record holds the
\* digest of the mailed plaintext.
C31_WitnessRegister ==
    /\ last.op = "register" /\ last.status = 201
    /\ \E m \in outbox :
          /\ m.plain = last.plain /\ m.purpose = "verify"
          /\ m.to = users[last.uid].email
          /\ users[last.uid].emailVerificationToken = Sha256(m.plain)

-----------------------------------------------------------------------------
(* C32: an unverified account can always recover verification.  After a    *)
(* Register whose email never arrived, Login with the registered           *)
(* credentials succeeds (Login does not require isEmailVerified),          *)
(* ResendEmailVerification with that session succeeds and stores a new     *)
(* token, whether or not its mail is delivered, and VerifyEmail with the   *)
(* newly issued plaintext within 20 minutes sets isEmailVerified to true.  *)

\* Record i exists and is not verified.
Unverified(i) == i \in Ids /\ ~users[i].isEmailVerified

C32_Recoverable ==
    [][\A r \in Reqs :
         /\ (/\ Received(r, "login")
             /\ Request(r, "login").password \in RegisterPasswords
             /\ \E i \in Ids : /\ HasEmail(i, Request(r, "login").email)
                                /\ Unverified(i)) =>
               Request(r, "login").pc = "gen_find"
         /\ (Answered(r) /\ req[r].op = "login" /\ req[r].pc # "idle"
               /\ Unverified(req[r].uid)) =>
               /\ last'.status = 200
               /\ last'.accessToken \in AccessTokens'
               /\ last'.accessToken.sub = req[r].uid
         /\ (/\ Received(r, "resend")
             /\ Request(r, "resend").cred \in AccessTokens
             /\ now < Request(r, "resend").cred.exp
             /\ Unverified(Request(r, "resend").cred.sub)) =>
               /\ Request(r, "resend").pc = "resend_find"
               /\ Request(r, "resend").uid = Request(r, "resend").cred.sub
         /\ (req[r].pc = "resend_find" /\ req'[r] # req[r]
               /\ Unverified(req[r].uid)) =>
               /\ req'[r].pc = "resend_save"
               /\ req'[r].plain \notin Generated
               /\ req'[r].expiry = now + TwentyMinutes
         /\ ResendSaves(r) =>
               /\ req'[r].pc = "resend_mail"
               /\ Pending(req[r].uid, req[r].plain)'
         /\ (req[r].pc = "resend_mail" /\ req'[r] # req[r]) =>
               /\ Answered(r)
               /\ last'.status = 200
               /\ users' = users
         /\ (/\ Received(r, "verify")
             /\ \E i \in Ids : /\ Unverified(i)
                                /\ Pending(i, Request(r, "verify").tok)
                                /\ now < users[i].emailVerificationExpiry) =>
               /\ Request(r, "verify").pc = "verify_save"
               /\ Pending(Request(r, "verify").uid, Request(r, "verify").tok)
         /\ (req[r].pc = "verify_save" /\ req'[r] # req[r]) =>
               /\ VerifySucceeds(r)
               /\ users'[req[r].uid].isEmailVerified]_vars

\* Register's mail never arrived; after a Login and a Resend, VerifyEmail
\* with the re-sent plaintext was answered 200 and the record is verified.
C32_Witness ==
    /\ Len(users) = 1
    /\ Plaintexts("verify") = {2}
    /\ last.op = "verify" /\ last.status = 200 /\ last.tok = 2
    /\ users[1].isEmailVerified

-----------------------------------------------------------------------------
(* C33: verifyJWT authenticates a request that carries a valid, unexpired  *)
(* access token only in the Authorization header, written as               *)
(* 'Bearer <token>', with the same result as when that token is carried in *)
(* the accessToken cookie.                                                 *)

\* The token a client wrote after the scheme, given what verifyJWT made of
\* the header.
Written(token) == [token EXCEPT !.lead = ""]

C33_HeaderAsCookie ==
    [][\A r \in Reqs : \A route \in Guarded :
         (/\ Received(r, route)
          /\ Request(r, route).cred.lead # ""
          /\ Written(Request(r, route).cred) \in AccessTokens) =>
            (Request(r, route).status = 401) =
                (VerifyJWTCheck(Written(Request(r, route).cred)) = 401)]_vars

-----------------------------------------------------------------------------
(* C34: in every reachable state, a record's refresh token reference is    *)
(* either absent or a refresh token that was issued for that same record   *)
(* (its subject id equals the record's id); it is never a token issued for *)
(* another user.                                                           *)

C34_RefreshTokenIsOwn ==
    \A i \in Ids :
        Present(users[i], "refreshToken") =>
            /\ users[i].refreshToken.sub = users[i]._id
            /\ users[i].refreshToken.sub = i
            /\ users[i].refreshToken =
                  generateRefreshToken(users[i], users[i].refreshToken.iat)
            /\ \A t \in RefreshTokensOf(i) : t.sub = i

\* Two records, each holding a refresh token, each its own.
C34_Witness ==
    /\ Len(users) = 2
    /\ \A i \in Ids : /\ Present(users[i], "refreshToken")
                       /\ users[i].refreshToken.sub = i
    /\ users[1].refreshToken # users[2].refreshToken

-----------------------------------------------------------------------------
(* C35: every flow changes at most the one record it targets.  Login       *)
(* changes only the record of the user who logged in, Logout and           *)
(* ResendEmailVerification only the record of the authenticated user,      *)
(* VerifyEmail only the record whose stored digest matched the supplied    *)
(* token, and Register only adds one record (and completes that record);   *)
(* all other records are unchanged.                                        *)

\* The request in slot r takes a step of its handler.
Steps(r) == req[r].pc # "idle" /\ req'[r] # req[r]

\* The record the request q is about, as its flow determines it.
Targets(q, i) ==
    CASE q.op = "login" -> HasEmail(i, q.email)
      [] q.op \in {"logout", "resend"} -> q.cred.sub = i
      [] q.op = "verify" -> q.uid = i
      [] q.op = "register" -> q.uid = i
      [] OTHER -> FALSE

C35_OnlyTargetChanges ==
    [][/\ \A i \in Ids :
            users'[i] # users[i] =>
                \E r \in Reqs : /\ Steps(r)
                                /\ req[r].uid = i
                                /\ Targets(req[r], i)
                                /\ \A j \in Ids \ {i} : users'[j] = users[j]
                                /\ Len(users') = Len(users)
       /\ Len(users') # Len(users) =>
            /\ Len(users') = Len(users) + 1
            /\ \A i \in Ids : users'[i] = users[i]
            /\ \E r \in Reqs : /\ req[r].op = "register"
                                /\ req[r].pc = "reg_create"
                                /\ req'[r].uid = Len(users')
       /\ \A r \in Reqs :
            /\ (Received(r, "verify") /\ Request(r, "verify").pc # "done") =>
                  Pending(Request(r, "verify").uid, Request(r, "verify").tok)
            /\ \A route \in {"logout", "resend"} :
                  (Received(r, route) /\ Request(r, route).pc # "done") =>
                     /\ Request(r, route).uid = Request(r, route).cred.sub
                     /\ Request(r, route).cred \in AccessTokens
            /\ (Received(r, "login") /\ Request(r, "login").pc # "done") =>
                  HasEmail(Request(r, "login").uid, Request(r, "login").email)]_vars

\* With two records stored, a VerifyEmail was answered 200: its record is
\* verified and the other one still holds its pending secret.
C35_Witness ==
    /\ Len(users) = 2
    /\ last.op = "verify" /\ last.status = 200
    /\ users[last.uid].isEmailVerified
    /\ \A j \in Ids \ {last.uid} :
          /\ ~users[j].isEmailVerified
          /\ users[j].emailVerificationToken # NoDigest

\* With two records stored, a Logout was answered 200: its record, which
\* held a refresh token, holds none, and the other one still holds its
\* pending secret.
C35_WitnessLogout ==
    /\ Len(users) = 2
    /\ last.op = "logout" /\ last.status = 200
    /\ last.prior # NoToken
    /\ ~Present(users[last.uid], "refreshToken")
    /\ \A j \in Ids \ {last.uid} : users[j].emailVerificationToken # NoDigest

====
